---- MODULE Spec2Model ----
\* Model of qibo's style-qGAN training pipeline (src/qibo/models/qgan.py) and of
\* the IcarusQ instrument driver (src/qibo/hardware/qpu.py).
\*
\*   SpecMapper : one call of qGAN.set_params on bounded inputs
\*   Spec       : qGAN.execute() followed by qGAN.train()
\*   SpecQpu    : calls of IcarusQ.upload / IcarusQ.download
\*   SpecMeas   : post-measurement bitflips on a circuit result, as exercised
\*                by src/qibo/tests/test_measurement_gate_probabilistic.py
EXTENDS Integers, Sequences, FiniteSets, TLC

VARIABLES
    \* qGAN hyperparameters (qgan.py:59-68)
    layers, nqubits, latent_dim, batch_samples, n_epochs,
    \* one call of set_params: the latent batch has `samples` columns, the call
    \* is for column sample_i; mapper is the outcome of the call
    samples, sample_i, mapper,
    \* execute()/train()
    state, pc, epoch, hamiltonians_list, circuit,
    d_loss, g_loss, d_loss_real, d_loss_fake, loss,
    y_real, y_fake, d_labels, gan_labels,
    files, opt_steps, steps, real_batches,
    \* IcarusQ
    qpc, call, chan, waveform, dump, session, acquired, released,
    transfers, late_ops, calls,
    \* measurement result with post-measurement bitflips
    mpc, nshots, bitflip_p, meas_samples, sprobs, noisy_samples,
    register_samples

cfgVars    == <<layers, nqubits, latent_dim, batch_samples, n_epochs>>
mapperVars == <<samples, sample_i, mapper>>
trainVars  == <<state, pc, epoch, hamiltonians_list, circuit,
                d_loss, g_loss, d_loss_real, d_loss_fake, loss,
                y_real, y_fake, d_labels, gan_labels,
                files, opt_steps, steps, real_batches>>
qpuVars    == <<qpc, call, chan, waveform, dump, session, acquired, released,
                transfers, late_ops, calls>>
measVars   == <<mpc, nshots, bitflip_p, meas_samples, sprobs, noisy_samples,
                register_samples>>
vars       == <<cfgVars, mapperVars, trainVars, qpuVars, measVars>>

\* ---------------------------------------------------------------- bounds
MaxLayers  == 2
MaxQubits  == 3
MaxLatent  == 3
MaxSamples == 3
MaxBatch   == 4
MaxEpochs  == 2
MaxCalls   == 2
MaxShots   == 2

\* ------------------------------------------------- qGAN.set_params (92-120)
\* The ParameterVector train() allocates (qgan.py:179).
ParamLen(L, n) == 10 * L * n + 2 * n

\* State of one running call: p (the angles appended so far), index, noise,
\* i (the Python variable `i`, which starts as the sample index), raised
\* (an IndexError / ZeroDivisionError left the call: every loop and every
\* statement after it is skipped).
\* An angle params[index]*x_input[noise][i] + params[index+1] is kept as the
\* operands it reads: scale = index, bias = index+1, row = noise, col = i.
MapperStart(i) ==
    [p |-> <<>>, index |-> 0, noise |-> 0, i |-> i, raised |-> FALSE]

\* p.append(params[index]*x_input[noise][i] + params[index+1]); index += 2
\* x_input has latent_dim rows and nsamp columns, params has plen entries.
ReadAngle(st, ld, nsamp, plen) ==
    IF st.raised THEN st
    ELSE IF st.index + 1 >= plen \/ st.noise >= ld \/ st.i >= nsamp
         THEN [st EXCEPT !.raised = TRUE]
         ELSE [st EXCEPT !.p = Append(@, [scale |-> st.index,
                                          bias  |-> st.index + 1,
                                          row   |-> st.noise,
                                          col   |-> st.i]),
                         !.index = @ + 2]

\* noise = (noise+1) % self.latent_dim
NextNoise(st, ld) ==
    IF st.raised THEN st
    ELSE IF ld = 0 THEN [st EXCEPT !.raised = TRUE]
         ELSE [st EXCEPT !.noise = (@ + 1) % ld]

\* Variant of RotationBlock that advances the noise after the 1st, 2nd and 3rd angle.
RotationBlockAdv123(st, ld, nsamp, plen) ==
    LET a1 == NextNoise(ReadAngle(st, ld, nsamp, plen), ld)
        a2 == NextNoise(ReadAngle(a1, ld, nsamp, plen), ld)
        a3 == NextNoise(ReadAngle(a2, ld, nsamp, plen), ld)
    IN  ReadAngle(a3, ld, nsamp, plen)

\* Lines 98-108: the four rotation angles of one qubit.
RotationBlock(st, ld, nsamp, plen) ==
    LET a1 == NextNoise(ReadAngle(st, ld, nsamp, plen), ld)   \* 98-100
        a2 == ReadAngle(a1, ld, nsamp, plen)                  \* 101-102
        a3 == NextNoise(ReadAngle(a2, ld, nsamp, plen), ld)   \* 103-105
    IN  NextNoise(ReadAngle(a3, ld, nsamp, plen), ld)         \* 106-108

\* Line 97: for q in range(self.nqubits)
RECURSIVE QubitLoop(_, _, _, _, _, _)
QubitLoop(st, q, n, ld, nsamp, plen) ==
    IF st.raised \/ q >= n THEN st
    ELSE QubitLoop(RotationBlock(st, ld, nsamp, plen), q + 1, n, ld, nsamp, plen)

\* Lines 109-112: for i in range(0, self.nqubits-1). The loop variable is the
\* function's parameter `i`: each iteration rebinds it.
RECURSIVE RingLoop(_, _, _, _, _, _)
RingLoop(st, k, n, ld, nsamp, plen) ==
    IF st.raised \/ k >= n - 1 THEN st
    ELSE RingLoop(NextNoise(ReadAngle([st EXCEPT !.i = k], ld, nsamp, plen), ld),
                  k + 1, n, ld, nsamp, plen)

\* Lines 113-115: the angle of the gate that closes the ring.
RingClose(st, ld, nsamp, plen) ==
    NextNoise(ReadAngle(st, ld, nsamp, plen), ld)

\* Line 96: for l in range(self.layers)
RECURSIVE LayerLoop(_, _, _, _, _, _, _)
LayerLoop(st, l, L, n, ld, nsamp, plen) ==
    IF st.raised \/ l >= L THEN st
    ELSE LayerLoop(
            RingClose(RingLoop(QubitLoop(st, 0, n, ld, nsamp, plen),
                               0, n, ld, nsamp, plen),
                      ld, nsamp, plen),
            l + 1, L, n, ld, nsamp, plen)

\* Lines 116-119: one trailing angle per qubit.
RECURSIVE TailLoop(_, _, _, _, _, _)
TailLoop(st, q, n, ld, nsamp, plen) ==
    IF st.raised \/ q >= n THEN st
    ELSE TailLoop(NextNoise(ReadAngle(st, ld, nsamp, plen), ld),
                  q + 1, n, ld, nsamp, plen)

\* set_params(circuit, params, x_input, i) with len(params) = plen and
\* x_input of shape (ld, nsamp).
set_params(L, n, ld, nsamp, plen, i) ==
    TailLoop(LayerLoop(MapperStart(i), 0, L, n, ld, nsamp, plen),
             0, n, ld, nsamp, plen)

\* ------------------------------------------ qGAN.execute: circuit (250-261)
RECURSIVE RotGates(_, _)
RotGates(q, n) ==
    IF q >= n THEN <<>>
    ELSE <<[gate |-> "RY", q0 |-> q, q1 |-> q], [gate |-> "RZ", q0 |-> q, q1 |-> q],
           [gate |-> "RY", q0 |-> q, q1 |-> q], [gate |-> "RZ", q0 |-> q, q1 |-> q]>>
         \o RotGates(q + 1, n)

RECURSIVE RingGates(_, _)
RingGates(k, n) ==
    IF k >= n - 1 THEN <<>>
    ELSE <<[gate |-> "CRY", q0 |-> k, q1 |-> k + 1]>> \o RingGates(k + 1, n)

RECURSIVE TailGates(_, _)
TailGates(q, n) ==
    IF q >= n THEN <<>>
    ELSE <<[gate |-> "RY", q0 |-> q, q1 |-> q]>> \o TailGates(q + 1, n)

RECURSIVE LayerGates(_, _, _)
LayerGates(l, L, n) ==
    IF l >= L THEN <<>>
    ELSE RotGates(0, n) \o RingGates(0, n)
         \o <<[gate |-> "CRY", q0 |-> n - 1, q1 |-> 0]>>
         \o LayerGates(l + 1, L, n)

\* The parameterized gates execute() adds, in order.
CircuitTemplate(L, n) == LayerGates(0, L, n) \o TailGates(0, n)

\* --------------------------------------------------- io.BytesIO, np.savetxt
\* dump = BytesIO(): an empty buffer at position 0.
NewBytesIO == [data |-> <<>>, pos |-> 0, closed |-> FALSE]

\* dump.seek(0)
Seek0(buf) == [buf EXCEPT !.pos = 0]

\* A write at the current position: it overwrites what is there, extends the
\* buffer past its end, and never truncates it.
WriteBytes(buf, bytes) ==
    [buf EXCEPT
        !.data = SubSeq(buf.data, 1, buf.pos) \o bytes
                 \o SubSeq(buf.data, buf.pos + Len(bytes) + 1, Len(buf.data)),
        !.pos = buf.pos + Len(bytes)]

\* A read from the current position to the end of the buffer.
ReadToEnd(buf) == SubSeq(buf.data, buf.pos + 1, Len(buf.data))

\* fmt='%d' of a natural number, as characters.
RECURSIVE Decimal(_)
Decimal(v) ==
    LET d == <<"0", "1", "2", "3", "4", "5", "6", "7", "8", "9">>[(v % 10) + 1]
    IN  IF v < 10 THEN <<d>> ELSE Decimal(v \div 10) \o <<d>>

\* np.savetxt(dump, w, fmt='%d', newline=','): each entry, then a comma.
RECURSIVE Serialise(_)
Serialise(w) ==
    IF w = <<>> THEN <<>>
    ELSE Decimal(Head(w)) \o <<",">> \o Serialise(Tail(w))

\* ------------------------------------------------------ parked subsystems
\* execute() has not been called.
TrainIdle ==
    /\ state = "Idle" /\ pc = "idle" /\ epoch = 0
    /\ hamiltonians_list = <<>> /\ circuit = <<>>
    /\ d_loss = <<>> /\ g_loss = <<>>
    /\ d_loss_real = "none" /\ d_loss_fake = "none" /\ loss = "none"
    /\ y_real = <<>> /\ y_fake = <<>> /\ d_labels = <<>> /\ gan_labels = <<>>
    /\ files = [params |-> 0, dloss |-> 0, gloss |-> 0, weights |-> 0]
    /\ opt_steps = 0 /\ steps = <<>> /\ real_batches = 0

\* No upload or download is running; the session is closed.
QpuIdle ==
    /\ qpc = "idle" /\ call = "none" /\ chan = 0
    /\ waveform = <<>> /\ dump = NewBytesIO /\ session = "closed"
    /\ acquired = 0 /\ released = 0 /\ transfers = <<>> /\ late_ops = 0
    /\ calls = 0

\* No circuit has been measured.
MeasIdle ==
    /\ mpc = "idle" /\ nshots = 0 /\ bitflip_p = <<>>
    /\ meas_samples = <<>> /\ sprobs = <<>> /\ noisy_samples = <<>>
    /\ register_samples = <<>>

\* set_params has not been called.
MapperIdle ==
    /\ samples = 0 /\ sample_i = 0
    /\ mapper = [called |-> FALSE, out |-> MapperStart(0)]

\* ------------------------------------------------------------ SpecMapper
MapperInit ==
    /\ layers \in 1..MaxLayers
    /\ nqubits \in 1..MaxQubits
    /\ latent_dim \in 1..MaxLatent
    /\ batch_samples = 0 /\ n_epochs = 0
    /\ samples \in 1..MaxSamples
    /\ sample_i \in 0..(samples - 1)
    /\ mapper = [called |-> FALSE, out |-> MapperStart(sample_i)]
    /\ TrainIdle /\ QpuIdle /\ MeasIdle

\* generate_fake_samples line 141: self.set_params(circuit, params, x_input, i)
CallSetParams ==
    /\ ~mapper.called
    /\ mapper' = [called |-> TRUE,
                  out |-> set_params(layers, nqubits, latent_dim, samples,
                                     ParamLen(layers, nqubits), sample_i)]
    /\ UNCHANGED <<cfgVars, measVars, samples, sample_i, trainVars, qpuVars>>

MapperNext == CallSetParams

SpecMapper == MapperInit /\ [][MapperNext]_vars

\* Number of noise advances the code has made before emitting the angle at
\* 0-based position k, from the loop structure of lines 96-119.
AdvancesBefore(k, L, n) ==
    IF k >= 5 * L * n THEN 4 * n * L + (k - 5 * L * n)
    ELSE LET l == k \div (5 * n)
             w == k % (5 * n)
         IN  4 * n * l +
             (IF w >= 4 * n THEN 3 * n + (w - 4 * n)
              ELSE 3 * (w \div 4) + (CASE w % 4 = 0 -> 0
                                       [] w % 4 = 1 -> 1
                                       [] w % 4 = 2 -> 1
                                       [] OTHER     -> 2))

\* The same count if the noise advanced after the 1st, 2nd and 3rd angle of a
\* qubit and not after the 4th.
AdvancesBeforeClaimed(k, L, n) ==
    IF k >= 5 * L * n THEN 4 * n * L + (k - 5 * L * n)
    ELSE LET l == k \div (5 * n)
             w == k % (5 * n)
         IN  4 * n * l +
             (IF w >= 4 * n THEN 3 * n + (w - 4 * n)
              ELSE 3 * (w \div 4) + (w % 4))

\* C1: a call of set_params reads the (scale, bias) pairs consecutively, each
\* once, ends with index = len(params), emits 5*layers*nqubits + nqubits
\* angles (the number of gates of the circuit template) and reads the noise
\* only at rows in [0, latent_dim).
C1_SetParamsConsumesAll ==
    mapper.called =>
        LET o == mapper.out
        IN  /\ ~o.raised
            /\ o.index = ParamLen(layers, nqubits)
            /\ Len(o.p) = 5 * layers * nqubits + nqubits
            /\ Len(o.p) = Len(CircuitTemplate(layers, nqubits))
            /\ \A k \in 1..Len(o.p) :
                  /\ o.p[k].scale = 2 * (k - 1)
                  /\ o.p[k].bias = 2 * (k - 1) + 1
                  /\ o.p[k].row \in 0..(latent_dim - 1)

\* C2: every angle a call for sample i emits that returns normally reads
\* column i of the latent batch and no other column.
C2_SetParamsSingleSample ==
    (mapper.called /\ ~mapper.out.raised) =>
        \A k \in 1..Len(mapper.out.p) : mapper.out.p[k].col = sample_i

\* C3 (as claimed): per qubit the noise advances after the 1st, 2nd and 3rd
\* rotation angle and not after the 4th; ring and trailing angles advance it.
C3_AdvanceAfter123 ==
    mapper.called =>
        \A k \in 1..Len(mapper.out.p) :
            mapper.out.p[k].row =
                AdvancesBeforeClaimed(k - 1, layers, nqubits) % latent_dim

\* C3 (amended): per qubit the noise advances after the 1st, 3rd and 4th
\* rotation angle and not after the 2nd; each ring-gate angle and each
\* trailing angle advances it by one (all modulo latent_dim).
C3_AdvanceAfter134 ==
    mapper.called =>
        /\ \A k \in 1..Len(mapper.out.p) :
              mapper.out.p[k].row =
                  AdvancesBefore(k - 1, layers, nqubits) % latent_dim
        /\ ~mapper.out.raised =>
              mapper.out.noise =
                  AdvancesBefore(5 * layers * nqubits + nqubits,
                                 layers, nqubits) % latent_dim

\* C3 witness: a completed call over two layers and two qubits whose latent
\* dimension tells the advance patterns apart.
C3_Witness ==
    /\ mapper.called /\ ~mapper.out.raised
    /\ layers >= 2 /\ nqubits >= 2 /\ latent_dim >= 3
    /\ Len(mapper.out.p) = 5 * layers * nqubits + nqubits

\* ------------------------------------- qGAN.execute: hamiltonian (228-243)
\* A matrix that is a Kronecker product of 2x2 factors is kept as the list of
\* its factors, leftmost first; np.kron(a, b) is then concatenation.
Kron(a, b) == a \o b

\* Lines 229-236: the list `kron`, with Z at index `position` (1-based here).
KronList(n, position) ==
    [k \in 1..n |-> IF k - 1 = position THEN <<"Z">> ELSE <<"I">>]

\* Lines 237-241: for i in range(nqubits - 1), from iteration i onward.
RECURSIVE HamFold(_, _, _, _)
HamFold(kron, i, n, ham) ==
    IF i >= n - 1 THEN ham
    ELSE IF i = 0 THEN HamFold(kron, 1, n, Kron(kron[2], kron[1]))
         ELSE HamFold(kron, i + 1, n, Kron(kron[i + 2], ham))

\* hamiltonian(nqubits, position). With nqubits = 1 the loop body never runs
\* and line 242 reads the unbound local `ham`: UnboundLocalError.
hamiltonian(n, position) ==
    IF n - 1 <= 0
    THEN [raised |-> TRUE, factors |-> <<>>]
    ELSE [raised |-> FALSE, factors |-> HamFold(KronList(n, position), 0, n, <<>>)]

\* ------------------------------------------------ labels (148, 156, 172)
\* generate_fake_samples line 148: y = np.zeros((samples, 1))
generate_fake_labels(nsamp) == [k \in 1..nsamp |-> 0]

\* generate_real_samples line 172: y = np.ones((samples, 1))
generate_real_labels(nsamp) == [k \in 1..nsamp |-> 1]

\* Variant of define_cost_gan_labels that keeps the labels generate_fake_samples returned.
KeepGeneratedLabels(y_generated, nsamp) == y_generated

\* define_cost_gan lines 154-156: y_fake is what generate_fake_samples
\* returned, then y_fake = np.ones((samples, 1)).
define_cost_gan_labels(y_generated, nsamp) == [k \in 1..nsamp |-> 1]

\* generate_fake_samples lines 140-141 raise when set_params raises for one
\* of the samples (an exception is the only way out of the loop).
GenerateRaises(nsamp) ==
    \E i \in 0..(nsamp - 1) :
        set_params(layers, nqubits, latent_dim, nsamp,
                   ParamLen(layers, nqubits), i).raised

\* Line 178: half_samples = int(self.batch_samples / 2)
half_samples == batch_samples \div 2

\* Line 192: (d_loss_real + d_loss_fake)/2 is finite only if both are.
Mean2(a, b) == IF a = "nan" \/ b = "nan" THEN "nan" ELSE "finite"

\* What a loss computed by the framework can be: finite, or NaN/Inf.
LossValues == {"finite", "nan"}

\* Variant of EpochBody with the two discriminator updates swapped.
EpochBodyFakeFirst ==
    <<"real", "fake", "d_fake", "d_real", "d_append", "g_loss", "apply",
      "g_append", "save_params", "save_dloss", "save_gloss", "save_weights">>

\* The statements of the loop body, lines 186-203, in source order.
EpochBody ==
    <<"real", "fake", "d_real", "d_fake", "d_append", "g_loss", "apply",
      "g_append", "save_params", "save_dloss", "save_gloss", "save_weights">>

\* The statement that follows s in the loop body ("loop": back to line 184).
AfterStep(s) ==
    LET k == CHOOSE j \in 1..Len(EpochBody) : EpochBody[j] = s
    IN  IF k = Len(EpochBody) THEN "loop" ELSE EpochBody[k + 1]

\* Variant of MoreEpochs that runs one epoch too many.
MoreEpochsOffByOne == epoch <= n_epochs

\* Line 184: for i in range(self.n_epochs)
MoreEpochs == epoch < n_epochs

\* ------------------------------------------------------------------ Spec
\* batch_samples >= 2, so that half_samples >= 1.
TrainInit ==
    /\ layers \in 1..MaxLayers
    /\ nqubits \in 1..MaxQubits
    /\ latent_dim \in 0..MaxLatent
    /\ batch_samples \in 2..MaxBatch
    /\ n_epochs \in 0..MaxEpochs
    /\ MapperIdle /\ TrainIdle /\ QpuIdle /\ MeasIdle

\* A statement of the loop body ran to its end.
Advance(s) ==
    /\ pc' = AfterStep(s)
    /\ steps' = Append(steps, s)

\* An exception leaves execute().
Raise ==
    /\ state' = "Failed"
    /\ pc' = "raised"

\* Lines 207-225 and 245: set_backend, define_discriminator, the empty list.
Execute ==
    /\ state = "Idle" /\ pc = "idle"
    /\ state' = "Running" /\ pc' = "hamiltonians"
    /\ hamiltonians_list' = <<>>
    /\ UNCHANGED <<cfgVars, measVars, mapperVars, qpuVars,
                   epoch, circuit, d_loss, g_loss, d_loss_real, d_loss_fake,
                   loss, y_real, y_fake, d_labels, gan_labels, files,
                   opt_steps, steps, real_batches>>

\* Lines 246-247: one iteration of the loop that builds the observables.
AppendHamiltonian ==
    /\ state = "Running" /\ pc = "hamiltonians"
    /\ Len(hamiltonians_list) < nqubits
    /\ LET h == hamiltonian(nqubits, Len(hamiltonians_list))
       IN  IF h.raised
           THEN Raise /\ UNCHANGED hamiltonians_list
           ELSE /\ hamiltonians_list' = Append(hamiltonians_list, h.factors)
                /\ UNCHANGED <<state, pc>>
    /\ UNCHANGED <<cfgVars, measVars, mapperVars, qpuVars,
                   epoch, circuit, d_loss, g_loss, d_loss_real, d_loss_fake,
                   loss, y_real, y_fake, d_labels, gan_labels, files,
                   opt_steps, steps, real_batches>>

\* Lines 250-261: the circuit template.
BuildCircuit ==
    /\ state = "Running" /\ pc = "hamiltonians"
    /\ Len(hamiltonians_list) = nqubits
    /\ circuit' = CircuitTemplate(layers, nqubits)
    /\ pc' = "train"
    /\ UNCHANGED <<cfgVars, measVars, mapperVars, qpuVars,
                   state, epoch, hamiltonians_list, d_loss, g_loss,
                   d_loss_real, d_loss_fake, loss, y_real, y_fake, d_labels,
                   gan_labels, files, opt_steps, steps, real_batches>>

\* Lines 264 and 175-182: train() starts with empty loss histories.
TrainStart ==
    /\ state = "Running" /\ pc = "train"
    /\ d_loss' = <<>> /\ g_loss' = <<>>
    /\ pc' = "loop"
    /\ UNCHANGED <<cfgVars, measVars, mapperVars, qpuVars,
                   state, epoch, hamiltonians_list, circuit, d_loss_real,
                   d_loss_fake, loss, y_real, y_fake, d_labels, gan_labels,
                   files, opt_steps, steps, real_batches>>

\* Line 184: the loop head; train() and execute() return after the last epoch.
LoopHead ==
    /\ state = "Running" /\ pc = "loop"
    /\ IF MoreEpochs
       THEN /\ pc' = EpochBody[1]
            /\ steps' = <<>> /\ d_labels' = <<>>
            /\ UNCHANGED state
       ELSE /\ state' = "Completed" /\ pc' = "done"
            /\ UNCHANGED <<steps, d_labels>>
    /\ UNCHANGED <<cfgVars, measVars, mapperVars, qpuVars,
                   epoch, hamiltonians_list, circuit, d_loss, g_loss,
                   d_loss_real, d_loss_fake, loss, y_real, y_fake, gan_labels,
                   files, opt_steps, real_batches>>

\* Line 186: x_real, y_real = generate_real_samples(half_samples, ...)
SampleReal ==
    /\ state = "Running" /\ pc = "real"
    /\ y_real' = generate_real_labels(half_samples)
    /\ real_batches' = real_batches + 1
    /\ Advance("real")
    /\ UNCHANGED <<cfgVars, measVars, mapperVars, qpuVars,
                   state, epoch, hamiltonians_list, circuit, d_loss, g_loss,
                   d_loss_real, d_loss_fake, loss, y_fake, d_labels,
                   gan_labels, files, opt_steps>>

\* Line 188: x_fake, y_fake = self.generate_fake_samples(..., half_samples, ...)
GenerateFake ==
    /\ state = "Running" /\ pc = "fake"
    /\ IF GenerateRaises(half_samples)
       THEN Raise /\ UNCHANGED <<y_fake, steps>>
       ELSE /\ y_fake' = generate_fake_labels(half_samples)
            /\ Advance("fake")
            /\ UNCHANGED state
    /\ UNCHANGED <<cfgVars, measVars, mapperVars, qpuVars,
                   epoch, hamiltonians_list, circuit, d_loss, g_loss,
                   d_loss_real, d_loss_fake, loss, y_real, d_labels,
                   gan_labels, files, opt_steps, real_batches>>

\* Line 190: d_loss_real, _ = d_model.train_on_batch(x_real, y_real)
TrainOnReal ==
    /\ state = "Running" /\ pc = "d_real"
    /\ d_labels' = Append(d_labels, [batch |-> "real", y |-> y_real])
    /\ d_loss_real' \in LossValues
    /\ Advance("d_real")
    /\ UNCHANGED <<cfgVars, measVars, mapperVars, qpuVars,
                   state, epoch, hamiltonians_list, circuit, d_loss, g_loss,
                   d_loss_fake, loss, y_real, y_fake, gan_labels, files,
                   opt_steps, real_batches>>

\* Line 191: d_loss_fake, _ = d_model.train_on_batch(x_fake, y_fake)
TrainOnFake ==
    /\ state = "Running" /\ pc = "d_fake"
    /\ d_labels' = Append(d_labels, [batch |-> "fake", y |-> y_fake])
    /\ d_loss_fake' \in LossValues
    /\ Advance("d_fake")
    /\ UNCHANGED <<cfgVars, measVars, mapperVars, qpuVars,
                   state, epoch, hamiltonians_list, circuit, d_loss, g_loss,
                   d_loss_real, loss, y_real, y_fake, gan_labels, files,
                   opt_steps, real_batches>>

\* Line 192: d_loss.append((d_loss_real + d_loss_fake)/2)
AppendDLoss ==
    /\ state = "Running" /\ pc = "d_append"
    /\ d_loss' = Append(d_loss, Mean2(d_loss_real, d_loss_fake))
    /\ Advance("d_append")
    /\ UNCHANGED <<cfgVars, measVars, mapperVars, qpuVars,
                   state, epoch, hamiltonians_list, circuit, g_loss,
                   d_loss_real, d_loss_fake, loss, y_real, y_fake, d_labels,
                   gan_labels, files, opt_steps, real_batches>>

\* Lines 194-195 and 151-161: loss = self.define_cost_gan(..., batch_samples, ...)
GeneratorLoss ==
    /\ state = "Running" /\ pc = "g_loss"
    /\ IF GenerateRaises(batch_samples)
       THEN Raise /\ UNCHANGED <<gan_labels, loss, steps>>
       ELSE /\ gan_labels' = define_cost_gan_labels(
                                 generate_fake_labels(batch_samples),
                                 batch_samples)
            /\ loss' \in LossValues
            /\ Advance("g_loss")
            /\ UNCHANGED state
    /\ UNCHANGED <<cfgVars, measVars, mapperVars, qpuVars,
                   epoch, hamiltonians_list, circuit, d_loss, g_loss,
                   d_loss_real, d_loss_fake, y_real, y_fake, d_labels, files,
                   opt_steps, real_batches>>

\* Lines 196-197: grads = tape.gradient(...); optimizer.apply_gradients(...)
ApplyGradients ==
    /\ state = "Running" /\ pc = "apply"
    /\ opt_steps' = opt_steps + 1
    /\ Advance("apply")
    /\ UNCHANGED <<cfgVars, measVars, mapperVars, qpuVars,
                   state, epoch, hamiltonians_list, circuit, d_loss, g_loss,
                   d_loss_real, d_loss_fake, loss, y_real, y_fake, d_labels,
                   gan_labels, files, real_batches>>

\* Line 198: g_loss.append(loss)
AppendGLoss ==
    /\ state = "Running" /\ pc = "g_append"
    /\ g_loss' = Append(g_loss, loss)
    /\ Advance("g_append")
    /\ UNCHANGED <<cfgVars, measVars, mapperVars, qpuVars,
                   state, epoch, hamiltonians_list, circuit, d_loss,
                   d_loss_real, d_loss_fake, loss, y_real, y_fake, d_labels,
                   gan_labels, files, opt_steps, real_batches>>

\* Lines 199-201: np.savetxt of the parameters and of the two loss histories.
\* A file is kept as the number of the epoch (from 1) that last wrote it.
SaveParams ==
    /\ state = "Running" /\ pc = "save_params"
    /\ files' = [files EXCEPT !.params = epoch + 1]
    /\ Advance("save_params")
    /\ UNCHANGED <<cfgVars, measVars, mapperVars, qpuVars,
                   state, epoch, hamiltonians_list, circuit, d_loss, g_loss,
                   d_loss_real, d_loss_fake, loss, y_real, y_fake, d_labels,
                   gan_labels, opt_steps, real_batches>>

SaveDLoss ==
    /\ state = "Running" /\ pc = "save_dloss"
    /\ files' = [files EXCEPT !.dloss = epoch + 1]
    /\ Advance("save_dloss")
    /\ UNCHANGED <<cfgVars, measVars, mapperVars, qpuVars,
                   state, epoch, hamiltonians_list, circuit, d_loss, g_loss,
                   d_loss_real, d_loss_fake, loss, y_real, y_fake, d_labels,
                   gan_labels, opt_steps, real_batches>>

SaveGLoss ==
    /\ state = "Running" /\ pc = "save_gloss"
    /\ files' = [files EXCEPT !.gloss = epoch + 1]
    /\ Advance("save_gloss")
    /\ UNCHANGED <<cfgVars, measVars, mapperVars, qpuVars,
                   state, epoch, hamiltonians_list, circuit, d_loss, g_loss,
                   d_loss_real, d_loss_fake, loss, y_real, y_fake, d_labels,
                   gan_labels, opt_steps, real_batches>>

\* Line 203: d_model.save_weights(...); the iteration ends.
SaveWeights ==
    /\ state = "Running" /\ pc = "save_weights"
    /\ files' = [files EXCEPT !.weights = epoch + 1]
    /\ Advance("save_weights")
    /\ epoch' = epoch + 1
    /\ UNCHANGED <<cfgVars, measVars, mapperVars, qpuVars,
                   state, hamiltonians_list, circuit, d_loss, g_loss,
                   d_loss_real, d_loss_fake, loss, y_real, y_fake, d_labels,
                   gan_labels, opt_steps, real_batches>>

TrainNext ==
    \/ Execute \/ AppendHamiltonian \/ BuildCircuit \/ TrainStart
    \/ LoopHead \/ SampleReal \/ GenerateFake \/ TrainOnReal \/ TrainOnFake
    \/ AppendDLoss \/ GeneratorLoss \/ ApplyGradients \/ AppendGLoss
    \/ SaveParams \/ SaveDLoss \/ SaveGLoss \/ SaveWeights

Spec == TrainInit /\ [][TrainNext]_vars

\* ------------------------------------------------------- claims on Spec
IsPrefix(a, b) ==
    /\ Len(a) <= Len(b)
    /\ \A k \in 1..Len(a) : a[k] = b[k]

BodySteps ==
    {"real", "fake", "d_real", "d_fake", "d_append", "g_loss", "apply",
     "g_append", "save_params", "save_dloss", "save_gloss", "save_weights"}

\* The order the claim gives: both losses are appended after the optimizer step.
ClaimedOrder ==
    <<"real", "fake", "d_real", "d_fake", "g_loss", "apply", "d_append",
      "g_append", "save_params", "save_dloss", "save_gloss", "save_weights">>

\* The order with the discriminator loss appended right after the two
\* discriminator updates.
AmendedOrder ==
    <<"real", "fake", "d_real", "d_fake", "d_append", "g_loss", "apply",
      "g_append", "save_params", "save_dloss", "save_gloss", "save_weights">>

AllFilesWrittenIn(k) ==
    /\ files.params = k /\ files.dloss = k
    /\ files.gloss = k /\ files.weights = k

\* C4 (as claimed): the steps of an epoch run in the order real batch, fake
\* batch, discriminator on real, discriminator on fake, generator loss,
\* optimizer step, append of both losses, checkpoint files.
C4_EpochOrderClaimed == IsPrefix(steps, ClaimedOrder)

\* C4 (amended): the steps of an epoch run in the order real batch, fake
\* batch, discriminator on real, discriminator on fake, append of the
\* discriminator loss, generator loss, optimizer step, append of the generator
\* loss, checkpoint files; none is skipped or repeated in an epoch that ends,
\* an epoch in which a step raises has run the steps before it, and no step
\* of epoch k+1 starts before the checkpoint of epoch k is written (until the
\* 8 steps before the saves are done, every file is the one epoch k wrote).
C4_EpochOrderAmended ==
    /\ IsPrefix(steps, AmendedOrder)
    /\ (pc \in BodySteps) => pc = AmendedOrder[Len(steps) + 1]
    /\ (pc = "loop" /\ epoch >= 1) => steps = AmendedOrder
    /\ (pc \in BodySteps /\ Len(steps) <= 8) => AllFilesWrittenIn(epoch)

\* C4 witness: the second epoch has run all its steps.
C4_Witness ==
    /\ pc = "loop" /\ epoch = 2 /\ steps = AmendedOrder /\ opt_steps = 2

\* C5: the labels given to the generator's adversarial loss are all ones
\* (batch_samples of them) although generate_fake_samples labels its samples
\* zero; the discriminator is trained with all-zero labels on the fake batch
\* and all-one labels on the real batch.
C5_Labels ==
    /\ \A k \in 1..Len(gan_labels) : gan_labels[k] = 1
    /\ (opt_steps >= 1) => Len(gan_labels) = batch_samples
    /\ \A k \in 1..Len(d_labels) :
          /\ Len(d_labels[k].y) = half_samples
          /\ \A j \in 1..Len(d_labels[k].y) :
                d_labels[k].y[j] = (IF d_labels[k].batch = "real" THEN 1 ELSE 0)

\* C5 witness: both discriminator updates and the generator loss of an epoch
\* have been computed.
C5_Witness ==
    /\ pc = "apply" /\ Len(d_labels) = 2
    /\ d_labels[2].batch = "fake" /\ d_labels[2].y = generate_fake_labels(half_samples)
    /\ Len(gan_labels) = batch_samples

\* C6: at the end of epoch k both loss histories hold exactly k entries and
\* the four files were written in epoch k; a run that ends Completed has
\* executed exactly n_epochs epochs and both histories have n_epochs entries.
C6_HistoryLengths ==
    /\ epoch <= n_epochs
    /\ (pc = "loop") =>
          /\ Len(d_loss) = epoch /\ Len(g_loss) = epoch
          /\ (epoch >= 1) => AllFilesWrittenIn(epoch)
    /\ (state = "Completed") =>
          /\ epoch = n_epochs /\ opt_steps = n_epochs
          /\ Len(d_loss) = n_epochs /\ Len(g_loss) = n_epochs

\* C6 witness: a run of two epochs has ended Completed.
C6_Witness ==
    /\ state = "Completed" /\ n_epochs = 2
    /\ Len(d_loss) = 2 /\ Len(g_loss) = 2 /\ AllFilesWrittenIn(2)

\* C7: an epoch whose discriminator or generator loss is non-finite has made
\* the run Failed (so no later epoch and no later optimizer step follows).
C7_NonFiniteLossAborts ==
    \A k \in 1..epoch :
        (d_loss[k] = "nan" \/ g_loss[k] = "nan") => state = "Failed"

\* Hyperparameters for which set_params cannot be run on the batches train()
\* builds.
ConfigError ==
    GenerateRaises(half_samples) \/ GenerateRaises(batch_samples)

\* C8: with a configuration error execute() fails before the first step of
\* the first epoch: no real batch is sampled, the discriminator is not
\* updated and no checkpoint file is written.
C8_ConfigErrorFailsAtSetup ==
    ConfigError =>
        /\ real_batches = 0
        /\ d_labels = <<>>
        /\ AllFilesWrittenIn(0)

\* Number of Z factors of an observable, and the qubit its Z acts on
\* (factor k of the Kronecker product acts on qubit k-1).
ZCount(h) == Cardinality({k \in 1..Len(h) : h[k] = "Z"})
ZQubit(h) == CHOOSE k \in 1..Len(h) : h[k] = "Z"

\* C9: once execute() is past building the observables there are exactly
\* nqubits of them, each a product of one Z and identities on nqubits
\* qubits, no two with Z on the same qubit.
C9_OneZObservablePerQubit ==
    (pc \notin {"idle", "hamiltonians"}) =>
        /\ Len(hamiltonians_list) = nqubits
        /\ \A k \in 1..Len(hamiltonians_list) :
              /\ Len(hamiltonians_list[k]) = nqubits
              /\ ZCount(hamiltonians_list[k]) = 1
        /\ \A j, k \in 1..Len(hamiltonians_list) :
              (j # k) => ZQubit(hamiltonians_list[j]) # ZQubit(hamiltonians_list[k])

\* ------------------------------------------------ IcarusQ (qpu.py) SpecQpu
\* Hardware static parameter (qpu.py:32).
nchannels == 4

\* The per-channel waveforms an upload is called with.
WaveChoices == {<<5>>, <<12>>, <<5, 12>>, <<120, 7>>}

\* `with self.connection as sftp:` entered: the transport session is acquired.
connection_enter ==
    /\ session' = "open"
    /\ acquired' = acquired + 1

\* The with block left: the transport session is released.
connection_exit ==
    /\ session' = "closed"
    /\ released' = released + 1

\* sftp.close(): releases a held session; on a released one it is an
\* operation on a session that is no longer held.
sftp_close ==
    IF session = "open"
    THEN connection_exit /\ UNCHANGED late_ops
    ELSE late_ops' = late_ops + 1 /\ UNCHANGED <<session, released>>

\* A call starts: the bookkeeping of the session is per call.
FreshCall ==
    /\ calls' = calls + 1
    /\ chan' = 0
    /\ acquired' = 0 /\ released' = 0 /\ transfers' = <<>> /\ late_ops' = 0
    /\ qpc' = "with"

\* upload(waveform), line 75: dump = BytesIO()
StartUpload ==
    /\ qpc \in {"idle", "returned"}
    /\ calls < MaxCalls
    /\ call' = "upload"
    /\ waveform' \in [0..(nchannels - 1) -> WaveChoices]
    /\ dump' = NewBytesIO
    /\ FreshCall
    /\ UNCHANGED <<session, cfgVars, measVars, mapperVars, trainVars>>

\* download(), lines 85-86: waveform = np.zeros(...), dump = BytesIO()
StartDownload ==
    /\ qpc \in {"idle", "returned"}
    /\ calls < MaxCalls
    /\ call' = "download"
    /\ waveform' = [c \in 0..(nchannels - 1) |-> <<>>]
    /\ dump' = NewBytesIO
    /\ FreshCall
    /\ UNCHANGED <<session, cfgVars, measVars, mapperVars, trainVars>>

\* Lines 76 and 87: with self.connection as sftp
EnterWith ==
    /\ qpc = "with"
    /\ connection_enter
    /\ qpc' = "loop"
    /\ UNCHANGED <<call, chan, waveform, dump, released, transfers, late_ops,
                   calls, cfgVars, measVars, mapperVars, trainVars>>

\* Lines 77-81: one iteration of upload's loop; putfo sends the buffer from
\* its current position to its end.
UploadChannel ==
    /\ qpc = "loop" /\ call = "upload" /\ chan < nchannels
    /\ LET written == Seek0(WriteBytes(Seek0(dump), Serialise(waveform[chan])))
       IN  /\ transfers' = Append(transfers, [chan |-> chan,
                                              held |-> session = "open",
                                              data |-> ReadToEnd(written)])
           /\ dump' = [written EXCEPT !.pos = Len(written.data)]
    /\ chan' = chan + 1
    /\ UNCHANGED <<qpc, call, waveform, session, acquired, released, late_ops,
                   calls, cfgVars, measVars, mapperVars, trainVars>>

\* Lines 88-94: one iteration of download's loop; getfo returns the remote
\* file, whose entries become row i of waveform.
DownloadChannel ==
    /\ qpc = "loop" /\ call = "download" /\ chan < nchannels
    /\ \E remote \in WaveChoices :
          /\ dump' = Seek0(WriteBytes(NewBytesIO, Serialise(remote)))
          /\ waveform' = [waveform EXCEPT ![chan] = remote]
          /\ transfers' = Append(transfers, [chan |-> chan,
                                             held |-> session = "open",
                                             data |-> Serialise(remote)])
    /\ chan' = chan + 1
    /\ UNCHANGED <<qpc, call, session, acquired, released, late_ops,
                   calls, cfgVars, measVars, mapperVars, trainVars>>

\* The with block ends after the last channel.
ExitWith ==
    /\ qpc = "loop" /\ chan = nchannels
    /\ connection_exit
    /\ qpc' = IF call = "download" THEN "sftp_close" ELSE "dump_close"
    /\ UNCHANGED <<call, chan, waveform, dump, acquired, transfers, late_ops,
                   calls, cfgVars, measVars, mapperVars, trainVars>>

\* download line 96, after the with block: sftp.close()
SftpCloseAfterWith ==
    /\ qpc = "sftp_close"
    /\ sftp_close
    /\ acquired' = acquired
    /\ qpc' = "dump_close"
    /\ UNCHANGED <<call, chan, waveform, dump, transfers,
                   calls, cfgVars, measVars, mapperVars, trainVars>>

\* Lines 82 and 97-99: dump.close(); the call returns.
DumpClose ==
    /\ qpc = "dump_close"
    /\ dump' = [dump EXCEPT !.closed = TRUE]
    /\ qpc' = "returned"
    /\ UNCHANGED <<call, chan, waveform, session, acquired, released,
                   transfers, late_ops, calls, cfgVars, measVars, mapperVars, trainVars>>

QpuInit ==
    /\ layers = 1 /\ nqubits = 1 /\ latent_dim = 1
    /\ batch_samples = 0 /\ n_epochs = 0
    /\ MapperIdle /\ TrainIdle /\ QpuIdle /\ MeasIdle

QpuNext ==
    \/ StartUpload \/ StartDownload \/ EnterWith \/ UploadChannel
    \/ DownloadChannel \/ ExitWith \/ SftpCloseAfterWith \/ DumpClose

SpecQpu == QpuInit /\ [][QpuNext]_vars

\* C10: a call of upload or download acquires the session once, makes its
\* nchannels transfers (channels 0..nchannels-1 in order) while the session
\* is held, releases it once, and issues no operation on the session after
\* the release.
C10_ScopedSession ==
    /\ late_ops = 0
    /\ acquired <= 1 /\ released <= acquired
    /\ \A k \in 1..Len(transfers) :
          transfers[k].held /\ transfers[k].chan = k - 1
    /\ (qpc = "returned") =>
          /\ acquired = 1 /\ released = 1
          /\ Len(transfers) = nchannels

\* ------------------------- post-measurement bitflips (tests, lines 105-150)
\* Probabilities and uniform draws are kept in hundredths: 0.2 is 20.
\* The measurement gates of the test circuits, in the order they are added
\* (lines 113-114 and 134-135).
MeasurementGates ==
    <<[name |-> "a", qubits |-> <<0, 1>>], [name |-> "b", qubits |-> <<3>>]>>

\* The qubits the circuit measures, in the order of the measurement gates.
RECURSIVE GateQubits(_)
GateQubits(gs) ==
    IF gs = <<>> THEN <<>> ELSE Head(gs).qubits \o GateQubits(Tail(gs))

MeasuredQubits == GateQubits(MeasurementGates)

\* The bitflip maps of the tests: all zero (line 105) and line 139.
ProbChoices ==
    { (0 :> 0)  @@ (1 :> 0)  @@ (3 :> 0),
      (0 :> 20) @@ (1 :> 40) @@ (3 :> 30) }

\* Values of K.random_uniform on either side of the probabilities above.
DrawValues == {0, 35}

\* The probability map as the tuple over the measured qubits.
get_bitflip_tuple(qubits, p) == [k \in 1..Len(qubits) |-> p[qubits[k]]]

\* result.apply_bitflips(p0, p1): flip0 = sprobs < p0 turns a 0 into 1,
\* flip1 = sprobs < p1 turns a 1 into 0.
apply_bitflips_p0_p1(s, draws, p0, p1) ==
    [r \in 1..Len(s) |->
        [c \in 1..Len(s[r]) |->
            LET flip0 == IF draws[r][c] < p0[c] THEN 1 ELSE 0
                flip1 == IF draws[r][c] < p1[c] THEN 1 ELSE 0
            IN  s[r][c] + (1 - s[r][c]) * flip0 - s[r][c] * flip1]]

\* apply_bitflips(p0) with p1 left out: p1 = p0.
apply_bitflips(s, draws, p) ==
    apply_bitflips_p0_p1(s, draws,
                         get_bitflip_tuple(MeasuredQubits, p),
                         get_bitflip_tuple(MeasuredQubits, p))

\* The column of the sample matrix that holds qubit q.
qubit_map(q) == CHOOSE k \in 1..Len(MeasuredQubits) : MeasuredQubits[k] = q

\* samples(registers=True): for each measurement gate, the columns of its
\* qubits.
samples_by_register(s) ==
    [g \in 1..Len(MeasurementGates) |->
        [name |-> MeasurementGates[g].name,
         rows |-> [r \in 1..Len(s) |->
                      [k \in 1..Len(MeasurementGates[g].qubits) |->
                          s[r][qubit_map(MeasurementGates[g].qubits[k])]]]]]

\* Variant of flipper that flips when the draw equals the probability.
flipperInclusive(draws, parr) ==
    [r \in 1..Len(draws) |->
        [c \in 1..Len(draws[r]) |-> IF draws[r][c] <= parr[c] THEN 1 ELSE 0]]

\* Line 145: flipper = K.cast(sprobs < np.array([...]), dtype=samples.dtype)
flipper(draws, parr) ==
    [r \in 1..Len(draws) |->
        [c \in 1..Len(draws[r]) |-> IF draws[r][c] < parr[c] THEN 1 ELSE 0]]

\* Line 146: target_samples = (samples + flipper) % 2
target_samples(s, f) ==
    [r \in 1..Len(s) |-> [c \in 1..Len(s[r]) |-> (s[r][c] + f[r][c]) % 2]]

\* Line 145: the array of probabilities, one per measured qubit (0, 1, 3).
prob_array(p) == <<p[0], p[1], p[3]>>

\* Lines 149-150: m[:, from:to] (0-based, to exclusive).
ColSlice(m, from, to) ==
    [r \in 1..Len(m) |-> SubSeq(m[r], from + 1, to)]

MeasInit ==
    /\ layers = 1 /\ nqubits = 1 /\ latent_dim = 1
    /\ batch_samples = 0 /\ n_epochs = 0
    /\ MapperIdle /\ TrainIdle /\ QpuIdle
    /\ mpc = "circuit"
    /\ nshots \in 1..MaxShots
    /\ bitflip_p \in ProbChoices
    /\ meas_samples = <<>> /\ sprobs = <<>> /\ noisy_samples = <<>>
    /\ register_samples = <<>>

\* Lines 136-137: result = c(nshots=...); samples = result.samples()
MeasureShots ==
    /\ mpc = "circuit"
    /\ meas_samples' \in [1..nshots -> [1..Len(MeasuredQubits) -> {0, 1}]]
    /\ mpc' = "measured"
    /\ UNCHANGED <<nshots, bitflip_p, sprobs, noisy_samples, register_samples,
                   cfgVars, mapperVars, trainVars, qpuVars>>

\* Lines 138-141: apply_bitflips draws one uniform number per entry; then the
\* noisy samples are read as a matrix and per register.
ApplyBitflips ==
    /\ mpc = "measured"
    /\ sprobs' \in [1..nshots -> [1..Len(MeasuredQubits) -> DrawValues]]
    /\ noisy_samples' = apply_bitflips(meas_samples, sprobs', bitflip_p)
    /\ register_samples' = samples_by_register(noisy_samples')
    /\ mpc' = "flipped"
    /\ UNCHANGED <<nshots, bitflip_p, meas_samples,
                   cfgVars, mapperVars, trainVars, qpuVars>>

MeasNext == MeasureShots \/ ApplyBitflips

SpecMeas == MeasInit /\ [][MeasNext]_vars

C12_UploadSendsOnlyChannel ==
    (call = "upload") =>
        \A k \in 1..Len(transfers) :
            transfers[k].data = Serialise(waveform[transfers[k].chan])

====
